---- MODULE Spec2Model ----
(***************************************************************************)
(* Model of punch (src/src/punch.rs): create a file of a given size,       *)
(* either with the platform preallocation call or by writing zeros.        *)
(*                                                                         *)
(* u64 / i64 values are kept at their width.  A 64-bit word is a triple    *)
(* <<top, mid, lo>> standing for top * 2^60 + mid * 2^30 + lo, with        *)
(* top in 0..15 and mid, lo in 0..2^30-1.  Bit 63 is the sign bit of the   *)
(* same word read as an i64; an i64 is a sign and a magnitude.             *)
(* usize is taken as 64 bits wide (the targets the cfg blocks name).       *)
(***************************************************************************)
EXTENDS Integers, Sequences, FiniteSets, TLC

\* ---------------------------------------------------------------- bounds
\* Largest number of write calls of the zero-fill loop that a run explores.
MaxWrites == 4

\* ------------------------------------------------------- 64-bit words
Limb == 1024 * 1024 * 1024

U64(top, mid, lo) == <<top, mid, lo>>

U64Zero == U64(0, 0, 0)

\* a small natural number (below 2^60) as a 64-bit word
FromNat(n) == U64(0, n \div Limb, n % Limb)

\* a <= b on 64-bit words read as unsigned
U64LE(a, b) ==
    \/ a[1] < b[1]
    \/ a[1] = b[1] /\ a[2] < b[2]
    \/ a[1] = b[1] /\ a[2] = b[2] /\ a[3] <= b[3]

\* s + n modulo 2^64, for 0 <= n < 2^30
U64AddNat(s, n) ==
    LET lo == s[3] + n
        mid == s[2] + (lo \div Limb)
        top == s[1] + (mid \div Limb)
    IN  U64(top % 16, mid % Limb, lo % Limb)

\* 2^64 - s modulo 2^64 (two's complement negation)
U64Neg(s) == U64AddNat(U64(15 - s[1], Limb - 1 - s[2], Limb - 1 - s[3]), 1)

\* `size as i64`: the bit pattern is reinterpreted, so a word with bit 63
\* set becomes the negative number s - 2^64, kept as sign and magnitude
AsI64(s) ==
    IF s[1] >= 8 THEN [neg |-> TRUE, mag |-> U64Neg(s)]
    ELSE [neg |-> FALSE, mag |-> s]

I64Negative(w) == w.neg

I64Positive(w) == ~w.neg /\ w.mag # U64Zero

\* `size as usize` on a 64-bit target: no truncation
AsUsize(s) == s

\* ------------------------------------------------------------ constants
\* vec![0; 1024 * 1024]
ChunkSize == 1024 * 1024

\* File::create opens with mode 0o666, masked by the process umask
CreateBits == 438

RECURSIVE BitAndNot(_, _)
\* a & ~b on natural numbers
BitAndNot(a, b) ==
    IF a = 0 THEN 0
    ELSE (IF a % 2 = 1 /\ b % 2 = 0 THEN 1 ELSE 0) + 2 * BitAndNot(a \div 2, b \div 2)

CreateMode(um) == BitAndNot(CreateBits, um)

\* --------------------------------------------------------------- inputs
\* args.size strings and what parse::<ByteSize>() makes of them
SizeStrings ==
    { "abc", "0", "1", "1048575", "1MiB", "1048577", "1500000B", "2MiB",
      "9223372036854775807", "8EiB", "18446744073709551615" }

ParseByteSize(s) ==
    CASE s = "0"        -> [ok |-> TRUE, val |-> FromNat(0)]
      [] s = "1"        -> [ok |-> TRUE, val |-> FromNat(1)]
      [] s = "1048575"  -> [ok |-> TRUE, val |-> FromNat(1048575)]
      [] s = "1MiB"     -> [ok |-> TRUE, val |-> FromNat(1048576)]
      [] s = "1048577"  -> [ok |-> TRUE, val |-> FromNat(1048577)]
      [] s = "1500000B" -> [ok |-> TRUE, val |-> FromNat(1500000)]
      [] s = "2MiB"     -> [ok |-> TRUE, val |-> FromNat(2097152)]
      [] s = "9223372036854775807" ->
                           [ok |-> TRUE, val |-> U64(7, Limb - 1, Limb - 1)]
      [] s = "8EiB"     -> [ok |-> TRUE, val |-> U64(8, 0, 0)]
      [] s = "18446744073709551615" ->
                           [ok |-> TRUE, val |-> U64(15, Limb - 1, Limb - 1)]
      [] OTHER          -> [ok |-> FALSE, val |-> U64Zero]

\* --permissions: <<>> is None, <<m>> is Some(m)
PermissionArgs == { <<>>, <<384>>, <<420>>, <<511>> }

Umasks == { 0, 18, 63 }

\* the cfg(target_os) classes: fallocate, posix_fallocate, ftruncate, none
Platforms == { "linux", "freebsd", "macos", "other" }

\* what one write call of the loop can return: Err, or Ok(n) with n <= 1 MiB
WriteResults ==
    { [ok |-> FALSE, n |-> 0] } \cup
    { [ok |-> TRUE, n |-> k] : k \in { 0, 1, ChunkSize - 1, ChunkSize } }

\* ---------------------------------------------------------------- state
VARIABLES
    platform,     \* target_os the binary was built for
    umask,        \* process umask
    args,         \* PunchArgs: size, no_syscall, permissions
    pc,           \* position in main
    size,         \* parsed byte count (u64)
    fileExists,   \* the file has been created
    fileLen,      \* logical length of the file (u64)
    fileMode,     \* mode bits of the file on disk
    permLocal,    \* the local `permissions` value: <<>> until set_mode
    path,         \* branch taken at the no_syscall test
    sysCalls,     \* number of platform preallocation calls issued
    sysLen,       \* length argument of the platform call (i64)
    sysRet,       \* return code of the platform call
    written,      \* the loop's `written` counter
    nwrites,      \* number of write calls issued
    lastWrite,    \* result of the latest write call
    writeErr,     \* some write call returned Err
    shortWrite,   \* some write call returned fewer than ChunkSize bytes
    zeroWrite,    \* some write call returned Ok(0)
    exitCode      \* process exit code, -1 while main is running

vars == << platform, umask, args, pc, size, fileExists, fileLen, fileMode,
           permLocal, path, sysCalls, sysLen, sysRet, written, nwrites,
           lastWrite, writeErr, shortWrite, zeroWrite, exitCode >>

fileVars == << fileExists, fileLen, fileMode >>
sysVars == << sysCalls, sysLen, sysRet >>
loopVars == << written, nwrites, lastWrite, writeErr, shortWrite,
              zeroWrite >>
envVars == << platform, umask, args >>

Init ==
    /\ platform \in Platforms
    /\ umask \in Umasks
    /\ args \in [ size : SizeStrings, no_syscall : BOOLEAN,
                  permissions : PermissionArgs ]
    /\ pc = "parse"
    /\ size = U64Zero
    /\ fileExists = FALSE
    /\ fileLen = U64Zero
    /\ fileMode = 0
    /\ permLocal = <<>>
    /\ path = "none"
    /\ sysCalls = 0
    /\ sysLen = [neg |-> FALSE, mag |-> U64Zero]
    /\ sysRet = 0
    /\ written = 0
    /\ nwrites = 0
    /\ lastWrite = [ok |-> TRUE, n |-> 0]
    /\ writeErr = FALSE
    /\ shortWrite = FALSE
    /\ zeroWrite = FALSE
    /\ exitCode = -1

\* --------------------------------------------------------------- actions
\* let size = match &args.size.parse::<ByteSize>() { ... }
ParseSize ==
    /\ pc = "parse"
    /\ LET r == ParseByteSize(args.size) IN
         IF r.ok
         THEN /\ size' = r.val
              /\ pc' = "create"
              /\ exitCode' = exitCode
         ELSE /\ size' = size
              /\ pc' = "exit"
              /\ exitCode' = 1
    /\ UNCHANGED << envVars, fileVars, permLocal, path, sysVars, loopVars >>

\* let mut file = File::create(&args.file)?;
CreateFile ==
    /\ pc = "create"
    /\ \E ok \in BOOLEAN :
         IF ok
         THEN /\ fileExists' = TRUE
              /\ fileLen' = U64Zero
              /\ fileMode' = CreateMode(umask)
              /\ pc' = "perm"
              /\ exitCode' = exitCode
         ELSE /\ UNCHANGED fileVars
              /\ pc' = "exit"
              /\ exitCode' = 1
    /\ UNCHANGED << envVars, size, permLocal, path, sysVars, loopVars >>

\* if let Some(iperm) = args.permissions { metadata()?; set_mode(iperm) }
\* set_mode changes the local Permissions value only; nothing writes it back
SetPermissions ==
    /\ pc = "perm"
    /\ IF Len(args.permissions) = 0
       THEN /\ pc' = "select"
            /\ UNCHANGED << permLocal, exitCode >>
       ELSE \E ok \in BOOLEAN :
              IF ok
              THEN /\ permLocal' = << args.permissions[1] >>
                   /\ pc' = "select"
                   /\ exitCode' = exitCode
              ELSE /\ permLocal' = permLocal
                   /\ pc' = "exit"
                   /\ exitCode' = 1
    /\ UNCHANGED << envVars, size, fileVars, path, sysVars, loopVars >>

\* the flag is not consulted: the platform call is always tried
UseSyscallAlways(a) == TRUE

\* the branch `if !args.no_syscall { ... } else { ... }`
UseSyscall(a) == ~a.no_syscall

\* if !args.no_syscall { <the cfg block of this platform> } else { loop }
Select ==
    /\ pc = "select"
    /\ IF UseSyscall(args)
       THEN IF platform = "other"
            THEN /\ path' = "nothing"
                 /\ pc' = "ret"
            ELSE /\ path' = "syscall"
                 /\ pc' = "syscall"
       ELSE /\ path' = "zerofill"
            /\ pc' = "loop"
    /\ UNCHANGED << envVars, size, fileVars, permLocal, sysVars, loopVars,
                    exitCode >>

\* a successful call does not return but goes on to the zero-fill loop
AfterSyscallFallThrough(ret) == IF ret = 0 THEN "loop" ELSE "ret"

\* where main goes after the platform call returned ret
AfterSyscall(ret) == IF ret = 0 THEN "exit" ELSE "ret"

\* one platform call with length argument len returning ret
PlatformCall(len, ret) ==
    /\ sysCalls' = sysCalls + 1
    /\ sysLen' = len
    /\ sysRet' = ret
    /\ fileLen' = (IF ret = 0 THEN len.mag ELSE fileLen)
    /\ pc' = AfterSyscall(ret)
    /\ exitCode' = (IF AfterSyscall(ret) = "exit" THEN 0 ELSE exitCode)
    /\ UNCHANGED << envVars, size, fileExists, fileMode, permLocal, path,
                    loopVars >>

\* libc::fallocate(fd, 0, 0, size as i64): -1 on failure, EINVAL if len <= 0
Fallocate ==
    /\ pc = "syscall"
    /\ platform = "linux"
    /\ LET len == AsI64(size) IN
         \E ret \in (IF I64Positive(len) THEN { 0, -1 } ELSE { -1 }) :
            PlatformCall(len, ret)

\* libc::posix_fallocate(fd, 0, size as i64): an errno value on failure
PosixFallocate ==
    /\ pc = "syscall"
    /\ platform = "freebsd"
    /\ LET len == AsI64(size) IN
         \E ret \in (IF I64Positive(len) THEN { 0, 28 } ELSE { 22 }) :
            PlatformCall(len, ret)

\* libc::ftruncate(fd, size as i64): -1 on failure, EINVAL if length < 0
Ftruncate ==
    /\ pc = "syscall"
    /\ platform = "macos"
    /\ LET len == AsI64(size) IN
         \E ret \in (IF I64Negative(len) THEN { -1 } ELSE { 0, -1 }) :
            PlatformCall(len, ret)

\* the comparison is strict: if written > size as usize { break; }
LoopBreaksStrict(w, s) == ~U64LE(FromNat(w), AsUsize(s))

\* if written >= size as usize { break; }
LoopBreaks(w, s) == U64LE(AsUsize(s), FromNat(w))

\* while let Ok(n) = buf_writer.write(&buf) { written += n; if ... break }
\* the buffer is larger than the BufWriter's capacity, so every write goes
\* straight to the file and nothing is left to flush
ZeroFillWrite ==
    /\ pc = "loop"
    /\ nwrites < MaxWrites
    /\ \E r \in WriteResults :
         /\ lastWrite' = r
         /\ nwrites' = nwrites + 1
         /\ IF r.ok
            THEN /\ written' = written + r.n
                 /\ fileLen' = U64AddNat(fileLen, r.n)
                 /\ writeErr' = writeErr
                 /\ shortWrite' = (shortWrite \/ r.n < ChunkSize)
                 /\ zeroWrite' = (zeroWrite \/ r.n = 0)
                 /\ pc' = IF LoopBreaks(written + r.n, size)
                          THEN "ret" ELSE "loop"
            ELSE /\ UNCHANGED << written, fileLen, shortWrite, zeroWrite >>
                 /\ writeErr' = TRUE
                 /\ pc' = "ret"
    /\ UNCHANGED << envVars, size, fileExists, fileMode, permLocal, path,
                    sysVars, exitCode >>

\* Ok(()) at the end of main
Return ==
    /\ pc = "ret"
    /\ pc' = "exit"
    /\ exitCode' = 0
    /\ UNCHANGED << envVars, size, fileVars, permLocal, path, sysVars,
                    loopVars >>

Next ==
    \/ ParseSize
    \/ CreateFile
    \/ SetPermissions
    \/ Select
    \/ Fallocate
    \/ PosixFallocate
    \/ Ftruncate
    \/ ZeroFillWrite
    \/ Return

Spec == Init /\ [][Next]_vars

\* ------------------------------------------------------------ properties
\* main has returned Ok(()) / the process has exited with code 0
ExitedOk == pc = "exit" /\ exitCode = 0

\* the zero-fill loop was entered and left without a write error
LoopEnded == path = "zerofill" /\ pc \in { "ret", "exit" } /\ ~writeErr

\* the size is a multiple of the chunk size (2^30 and 2^60 are multiples)
ChunkMultiple(s) == s[3] % ChunkSize = 0

\* C1: every run that ends with exit code 0 leaves the file with logical
\* length exactly the parsed byte count, on the platform-call path and on
\* the zero-fill path.
C1_ExactLength == ExitedOk => fileLen = size

\* C2: when syscalls are allowed and the platform call returns a failure
\* code, zero-fill writes have been issued by the time the process exits.
C2_FallbackAfterFailure ==
    (pc = "exit" /\ sysCalls > 0 /\ sysRet # 0) => nwrites > 0

\* C3: the process exits with code 0 only when allocation succeeded: after
\* a write error, or after a failed platform call that left the file short
\* of the target size, the exit code is not 0.
C3_FailureExitsNonZero ==
    (pc = "exit" /\ (writeErr \/ (sysCalls > 0 /\ sysRet # 0 /\ fileLen # size)))
        => exitCode # 0

\* C4: after a successful run with --permissions <mode> the file's mode
\* bits are exactly <mode>; without the option the mode is the one that
\* creation set.
C4_ModeApplied ==
    ExitedOk =>
        IF Len(args.permissions) = 1
        THEN fileMode = args.permissions[1]
        ELSE fileMode = CreateMode(umask)

\* C5: for target size 0 a run that reached the allocation step ends
\* without error and leaves a zero-length file, on both paths.
C5_ZeroSize ==
    (pc = "exit" /\ path # "none" /\ size = U64Zero)
        => (exitCode = 0 /\ fileLen = U64Zero)

\* C6: a parsed size above 2^63 - 1 is rejected at parse time, so whenever
\* the platform call has been issued the size fits an i64 and the length
\* handed to the call is not a wrapped (negative) value.
C6_SizeFitsI64 ==
    sysCalls > 0 => (size[1] < 8 /\ ~I64Negative(sysLen))

\* C7: when the platform call reports success the run has ended with exit
\* code 0 and no zero-fill write was issued; the platform call is invoked
\* at most once per run.
C7_SuccessCompletes ==
    /\ sysCalls <= 1
    /\ (sysCalls > 0 /\ sysRet = 0) =>
           (pc = "exit" /\ exitCode = 0 /\ nwrites = 0 /\ written = 0)

C7_Witness ==
    /\ sysCalls = 1 /\ sysRet = 0 /\ pc = "exit"
    /\ size # U64Zero /\ fileLen = size

\* C8: with the no-syscall flag set no platform call is ever invoked, and
\* the file's length is exactly what the zero-fill writes produced.
C8_NoSyscall ==
    args.no_syscall =>
        (sysCalls = 0 /\ path \in { "none", "zerofill" }
                      /\ fileLen = FromNat(written))

C8_Witness ==
    /\ args.no_syscall /\ ExitedOk
    /\ nwrites >= 2 /\ fileLen = FromNat(written) /\ fileLen # U64Zero

C10_ZeroWriteEndsLoop ==
    (nwrites > 0 /\ lastWrite.ok /\ lastWrite.n = 0) => pc \in { "ret", "exit" }

====
